---- MODULE Spec2Model ----
(***************************************************************************)
(* MovieRecommender backend: the SQLite entity store (database.py), the    *)
(* ranker (util/predict.py) and the FastAPI handlers (main.py) that serve  *)
(* recommendations.  Handlers run in a thread pool, so every database      *)
(* session (one SQL statement or one commit) is one atomic step and the    *)
(* steps of one request interleave with the writes of other requests.      *)
(***************************************************************************)
EXTENDS Integers, Sequences, FiniteSets, TLC

\* ---------------------------------------------------------------- bounds
MaxMovieId == 3        \* movie_id values are 1..MaxMovieId
MaxUserId == 2         \* user_id values are 1..MaxUserId
MaxMoviePk == 3        \* the Movie table holds rowids 1..MaxMoviePk
MaxRatingPk == 1       \* the Rating table holds rowids 1..MaxRatingPk
MaxRatingRows == 2     \* and rowids 1..MaxRatingRows where only ratings are written
MaxUserPk == 1         \* the User table holds rowids 1..MaxUserPk
MaxEst == 2            \* estimates are 1..MaxEst
MaxTopN == 3           \* top_n ranges over -1..MaxTopN
MaxSkip == 1           \* skip ranges over -MaxSkip..MaxSkip
NSeedMovies == 2       \* movies loaded by populate_movies

\* ------------------------------------------------------ program constants
MinRating == 1
MaxRating == 5
StatusOk == 200
StatusError == 500
StatusNotFound == 404
\* the names util/predict.py defines
PredictModule == {"predict_for_user", "predict_top_n_for_user", "predict_top_n_for_all_users"}

\* the values the requests are drawn from
MovieIds == 1..MaxMovieId
UserIds == 1..MaxUserId
Ests == 1..MaxEst
TopNs == (0 - 1)..MaxTopN
Skips == (0 - MaxSkip)..MaxSkip
\* SaveRatingRequest.rating is a float: a rating is counted in halves, so
\* that 4.5 is a value; Whole(n) is the float n.0
Whole(n) == 2 * n
IsWhole(rating) == rating % 2 = 0
\* a rating below the check constraint, one inside it, one above it
RatingInputs == {Whole(MinRating - 1), Whole(MinRating), Whole(MaxRating + 1)}
\* the same and a rating inside the check constraint that is no integer
RatingFloats == RatingInputs \cup {Whole(MaxRating) - 1}

\* the entry of the model for a pair on which model.predict raises
Raises == 0
\* session.get(...) on a missing primary key
None == [id |-> 0, movie_id |-> 0]

VARIABLES
    movies,    \* Movie table: rowid -> movie_id
    ratings,   \* Rating table: rowid -> [user_id, movie_id, rating]
    users,     \* User table: rowid -> user_id
    model,     \* the global model: <<user_id, movie_id>> -> estimate or Raises
    app,       \* lifespan: "starting", "loaded", "serving" or "stopped"
    req,       \* the request being served by a worker thread
    req2       \* the request being served by a second worker thread

vars == <<movies, ratings, users, model, app, req, req2>>

\* model = None, the value of the global before lifespan assigns it
NoModel == <<>>

\* the clamping of a Python slice bound
Min(a, b) == IF a < b THEN a ELSE b
Max(a, b) == IF a > b THEN a ELSE b

\* the values of a unique column
Range(f) == {f[x] : x \in DOMAIN f}

\* SQLite INTEGER PRIMARY KEY without AUTOINCREMENT: largest rowid plus one
NextRowid(table) ==
    IF DOMAIN table = {} THEN 1
    ELSE (CHOOSE k \in DOMAIN table : \A j \in DOMAIN table : j <= k) + 1

\* session.add(row); session.commit()
Insert(table, row) ==
    [k \in DOMAIN table \cup {NextRowid(table)} |->
        IF k \in DOMAIN table THEN table[k] ELSE row]

\* session.delete(row); session.commit()
Delete(table, pk) == [k \in DOMAIN table \ {pk} |-> table[k]]

\* class Movie: the row with primary key pk
Movie(pk) == [id |-> pk, movie_id |-> movies[pk]]

\* a table scan of Movie in rowid order, from rowid k on
RECURSIVE ScanMovies(_)
ScanMovies(k) ==
    IF k > MaxMoviePk THEN <<>>
    ELSE (IF k \in DOMAIN movies THEN <<Movie(k)>> ELSE <<>>) \o ScanMovies(k + 1)

\* the rows of a scan that satisfy the where clause, in scan order
RECURSIVE SelectSeq2(_, _)
SelectSeq2(s, keep) ==
    IF s = <<>> THEN <<>>
    ELSE (IF Head(s) \in keep THEN <<Head(s)>> ELSE <<>>) \o SelectSeq2(Tail(s), keep)

\* the subquery reduced to the first Rating row of the user
RatedByFirstRow(user_id) ==
    {ratings[k].movie_id :
        k \in {j \in DOMAIN ratings :
                /\ ratings[j].user_id = user_id
                /\ \A i \in DOMAIN ratings : ratings[i].user_id = user_id => j <= i}}

\* select(Rating.movie_id).where(Rating.user_id == user_id)
RatedBy(user_id) ==
    {ratings[k].movie_id : k \in {j \in DOMAIN ratings : ratings[j].user_id = user_id}}

\* the anti-join without its where(Rating.user_id == user_id)
get_unrated_movies_by_anyone(user_id) ==
    SelectSeq2(ScanMovies(1),
               {Movie(k) : k \in {j \in DOMAIN movies :
                    j \notin {ratings[r].movie_id : r \in DOMAIN ratings}}})

\* select(Movie).where(~Movie.id.in_(<RatedBy>)): one statement, one snapshot
get_unrated_movies_by_user(user_id) ==
    SelectSeq2(ScanMovies(1),
               {Movie(k) : k \in {j \in DOMAIN movies : j \notin RatedBy(user_id)}})

\* session.get(Movie, movie_id): a lookup by primary key
get_movie(movie_id) ==
    IF movie_id \in DOMAIN movies THEN Movie(movie_id) ELSE None

\* ------------------------------------------------------------- the ranker
\* model.predict(user_id, movie_id): a surprise Prediction (uid, iid, est);
\* None has no attribute predict, so the call raises while model is None
Prediction(user_id, movie_id) ==
    [uid |-> user_id, iid |-> movie_id,
     est |-> IF model = NoModel THEN Raises ELSE model[<<user_id, movie_id>>]]

\* predict_for_user(model, user_id, movie_id)
predict_for_user(user_id, movie_id) == Prediction(user_id, movie_id)

\* [model.predict(user_id, movie.movie_id) for movie in all_unrated_movies]
Predictions(user_id, cands) ==
    [i \in 1..Len(cands) |-> Prediction(user_id, cands[i].movie_id)]

\* an except clause around model.predict that swallows the exception
FirstRaiseSwallowed(preds) == 0

\* the index of the first candidate on which model.predict raises, else 0
FirstRaise(preds) ==
    IF \E i \in 1..Len(preds) : preds[i].est = Raises
    THEN CHOOSE i \in 1..Len(preds) :
            /\ preds[i].est = Raises
            /\ \A j \in 1..(i - 1) : preds[j].est # Raises
    ELSE 0

\* the same step of a sort that is not stable: x goes before its equals
RECURSIVE InsertDescUnstable(_, _)
InsertDescUnstable(s, x) ==
    IF s = <<>> THEN <<x>>
    ELSE IF Head(s).est > x.est THEN <<Head(s)>> \o InsertDescUnstable(Tail(s), x)
    ELSE <<x>> \o s

\* one step of a stable descending sort: x goes behind every element whose
\* key is greater than or equal to its own
RECURSIVE InsertDesc(_, _)
InsertDesc(s, x) ==
    IF s = <<>> THEN <<x>>
    ELSE IF Head(s).est >= x.est THEN <<Head(s)>> \o InsertDesc(Tail(s), x)
    ELSE <<x>> \o s

\* one step of a stable ascending sort
RECURSIVE InsertAsc(_, _)
InsertAsc(s, x) ==
    IF s = <<>> THEN <<x>>
    ELSE IF Head(s).est <= x.est THEN <<Head(s)>> \o InsertAsc(Tail(s), x)
    ELSE <<x>> \o s

\* sorted(predictions, key=lambda x: x.est) without reverse=True
RECURSIVE SortedAscending(_)
SortedAscending(preds) ==
    IF preds = <<>> THEN <<>>
    ELSE InsertAsc(SortedAscending(SubSeq(preds, 1, Len(preds) - 1)),
                   preds[Len(preds)])

\* sorted(predictions, key=lambda x: x.est, reverse=True)
RECURSIVE SortedPredictions(_)
SortedPredictions(preds) ==
    IF preds = <<>> THEN <<>>
    ELSE InsertDesc(SortedPredictions(SubSeq(preds, 1, Len(preds) - 1)),
                    preds[Len(preds)])

\* s[:n] of a Python list: a negative n counts from the end
SliceTo(s, n) ==
    IF n >= 0 THEN SubSeq(s, 1, Min(n, Len(s)))
    ELSE SubSeq(s, 1, Max(Len(s) + n, 0))

\* predict_top_n_for_user(model, user_id, top_n), when no prediction raises
predict_top_n_for_user(user_id, top_n) ==
    SliceTo(SortedPredictions(Predictions(user_id, get_unrated_movies_by_user(user_id))),
            top_n)

\* ----------------------------------------------------------- the requests
\* the request of the worker thread: todo is what is left of user_recs, out
\* is the list recommendations, calls are the movie ids model.predict was
\* called with when it raised, missing is the id get_movie did not find, id
\* is the primary key in the path of a request for one row
Idle ==
    [kind |-> "none", pc |-> "idle", user_id |-> 0, movie_id |-> 0, top_n |-> 0,
     skip |-> 0, calls |-> <<>>, todo |-> <<>>, out |-> <<>>,
     missing |-> 0, status |-> 0, est |-> 0, id |-> 0]

Respond(r, code) == [r EXCEPT !.pc = "done", !.status = code, !.todo = <<>>]

\* Recommendation(movie=movie, prediction_rating=rec.est)
Recommendation(movie, rec) == [movie |-> movie, prediction_rating |-> rec.est]

\* get_recommendations, up to the return of predict_top_n_for_user: the
\* request of the worker after it
get_recommendations(user_id, top_n) ==
    LET cands == get_unrated_movies_by_user(user_id)
        preds == Predictions(user_id, cands)
        k == FirstRaise(preds)
        r == [Idle EXCEPT !.kind = "rec", !.user_id = user_id, !.top_n = top_n]
        recs == predict_top_n_for_user(user_id, top_n)
    IN  IF k > 0
        THEN Respond([r EXCEPT !.calls = [i \in 1..k |-> preds[i].iid]], StatusError)
        ELSE IF recs = <<>>
        THEN Respond(r, StatusOk)
        ELSE [r EXCEPT !.pc = "hydrate", !.todo = recs]

\* get_recommendations: one turn of the loop over user_recs, and the return
\* after the last one
hydrate(r) ==
    LET rec == Head(r.todo)
        movie == get_movie(rec.iid)
        out == Append(r.out, Recommendation(movie, rec))
    IN  IF movie = None
        THEN Respond([r EXCEPT !.out = <<>>, !.missing = rec.iid], StatusError)
        ELSE IF Tail(r.todo) = <<>>
        THEN Respond([r EXCEPT !.out = out], StatusOk)
        ELSE [r EXCEPT !.out = out, !.todo = Tail(r.todo)]

\* get_recommendations_by_genre: predict.predict_top_n_for_user_by_genre is
\* looked up in util/predict.py
get_recommendations_by_genre(genre_id, user_id, top_n, skip) ==
    Respond([Idle EXCEPT !.kind = "genre", !.top_n = top_n, !.skip = skip],
            StatusError)

\* predict_rating
predict_rating(user_id, movie_id) ==
    LET p == predict_for_user(user_id, movie_id)
        r == [Idle EXCEPT !.kind = "predict", !.user_id = user_id,
                          !.movie_id = movie_id]
    IN  IF p.est = Raises THEN Respond(r, StatusError)
        ELSE Respond([r EXCEPT !.est = p.est], StatusOk)

\* the steps of the first worker thread
RecStart(user_id, top_n) ==
    /\ req.pc = "idle"
    /\ req' = get_recommendations(user_id, top_n)
    /\ UNCHANGED <<movies, ratings, users, model, app, req2>>

RecHydrate ==
    /\ req.pc = "hydrate"
    /\ req' = hydrate(req)
    /\ UNCHANGED <<movies, ratings, users, model, app, req2>>

RecByGenre(genre_id, user_id, top_n, skip) ==
    /\ req.pc = "idle"
    /\ "predict_top_n_for_user_by_genre" \notin PredictModule
    /\ req' = get_recommendations_by_genre(genre_id, user_id, top_n, skip)
    /\ UNCHANGED <<movies, ratings, users, model, app, req2>>

\* predict_rating saving its estimate as a rating of the user
PredictRatingSaved(user_id, movie_id) ==
    /\ req.pc = "idle"
    /\ req' = predict_rating(user_id, movie_id)
    /\ ratings' = IF req'.status = StatusError THEN ratings
                  ELSE Insert(ratings, [user_id |-> user_id, movie_id |-> movie_id,
                                        rating |-> Whole(req'.est)])
    /\ UNCHANGED <<movies, users, model, app, req2>>

PredictRating(user_id, movie_id) ==
    /\ req.pc = "idle"
    /\ req' = predict_rating(user_id, movie_id)
    /\ UNCHANGED <<movies, ratings, users, model, app, req2>>

\* the response is sent and the worker is free again
Reply ==
    /\ req.pc = "done"
    /\ req' = Idle
    /\ UNCHANGED <<movies, ratings, users, model, app, req2>>

\* the steps of the second worker thread
RecStart2(user_id, top_n) ==
    /\ req2.pc = "idle"
    /\ req2' = get_recommendations(user_id, top_n)
    /\ UNCHANGED <<movies, ratings, users, model, app, req>>

\* the list recommendations being one list of the module, which every
\* request in its loop appends to
RecHydrate2Shared ==
    /\ req2.pc = "hydrate"
    /\ req2' = hydrate(req2)
    /\ req' = IF req.pc = "hydrate" /\ req2'.status # StatusError
              THEN [req EXCEPT !.out = Append(req.out, req2'.out[Len(req2'.out)])]
              ELSE req
    /\ UNCHANGED <<movies, ratings, users, model, app>>

RecHydrate2 ==
    /\ req2.pc = "hydrate"
    /\ req2' = hydrate(req2)
    /\ UNCHANGED <<movies, ratings, users, model, app, req>>

PredictRating2(user_id, movie_id) ==
    /\ req2.pc = "idle"
    /\ req2' = predict_rating(user_id, movie_id)
    /\ UNCHANGED <<movies, ratings, users, model, app, req>>

Reply2 ==
    /\ req2.pc = "done"
    /\ req2' = Idle
    /\ UNCHANGED <<movies, ratings, users, model, app, req>>

\* ------------------------------------------------------------- the writes
\* the Movie table after create_movie without the unique constraint
create_movie_twice(movie_id) == Insert(movies, movie_id)

\* the Movie table after create_movie: the unique constraint on movie_id
\* makes the commit of a duplicate raise IntegrityError
create_movie(movie_id) ==
    IF movie_id \in Range(movies) THEN movies ELSE Insert(movies, movie_id)

\* the Movie table after update_movie: session.get by primary key, then
\* setattr and commit under the same unique constraint
update_movie(pk, movie_id) ==
    IF pk \notin DOMAIN movies THEN movies
    ELSE IF \E k \in DOMAIN movies \ {pk} : movies[k] = movie_id THEN movies
    ELSE [movies EXCEPT ![pk] = movie_id]

\* the Movie table after delete_movie
delete_movie(pk) == IF pk \in DOMAIN movies THEN Delete(movies, pk) ELSE movies

\* the User table after create_user, user_id being unique
create_user(user_id) ==
    IF user_id \in Range(users) THEN users ELSE Insert(users, user_id)

\* the User table after delete_user
delete_user(pk) == IF pk \in DOMAIN users THEN Delete(users, pk) ELSE users

\* create_movie, the response left aside
CreateMovie(movie_id) ==
    /\ NextRowid(movies) <= MaxMoviePk
    /\ movies' = create_movie(movie_id)
    /\ UNCHANGED <<ratings, users, model, app, req, req2>>

\* update_movie, the response left aside
UpdateMovie(pk, movie_id) ==
    /\ movies' = update_movie(pk, movie_id)
    /\ UNCHANGED <<ratings, users, model, app, req, req2>>

\* delete_movie
DeleteMovie(pk) ==
    /\ movies' = delete_movie(pk)
    /\ UNCHANGED <<ratings, users, model, app, req, req2>>

\* CheckConstraint('rating >= 1 AND rating <= 5')
check_rating(rating) == rating >= Whole(MinRating) /\ rating <= Whole(MaxRating)

\* create_rating
CreateRating(user_id, movie_id, rating) ==
    /\ ratings' = IF check_rating(rating)
                  THEN Insert(ratings, [user_id |-> user_id, movie_id |-> movie_id,
                                        rating |-> rating])
                  ELSE ratings
    /\ UNCHANGED <<movies, users, model, app, req, req2>>

\* update_rating
UpdateRating(pk, user_id, movie_id, rating) ==
    /\ ratings' = IF pk \in DOMAIN ratings /\ check_rating(rating)
                  THEN [ratings EXCEPT ![pk] = [user_id |-> user_id,
                                                movie_id |-> movie_id,
                                                rating |-> rating]]
                  ELSE ratings
    /\ UNCHANGED <<movies, users, model, app, req, req2>>

\* delete_rating
DeleteRating(pk) ==
    /\ ratings' = IF pk \in DOMAIN ratings THEN Delete(ratings, pk) ELSE ratings
    /\ UNCHANGED <<movies, users, model, app, req, req2>>

\* create_user
CreateUser(user_id) ==
    /\ NextRowid(users) <= MaxUserPk
    /\ users' = create_user(user_id)
    /\ UNCHANGED <<movies, ratings, model, app, req, req2>>

\* delete_user
DeleteUser(pk) ==
    /\ users' = delete_user(pk)
    /\ UNCHANGED <<movies, ratings, model, app, req, req2>>

\* ------------------------------------------- the requests for one row
\* POST /movies: create_movie of main.py, IntegrityError becoming HTTP 500
HandleCreateMovie(movie_id) ==
    /\ req.pc = "idle"
    /\ NextRowid(movies) <= MaxMoviePk
    /\ movies' = create_movie(movie_id)
    /\ req' = Respond([Idle EXCEPT !.kind = "create_movie", !.movie_id = movie_id],
                      IF movie_id \in Range(movies) THEN StatusError ELSE StatusOk)
    /\ UNCHANGED <<ratings, users, model, app, req2>>

\* GET /movies/{movie_id}: read_movie returns what get_movie returned, and
\* None is no db.Movie, so the response model fails for a missing row
HandleReadMovie(pk) ==
    /\ req.pc = "idle"
    /\ LET movie == get_movie(pk)
           r == [Idle EXCEPT !.kind = "read_movie", !.id = pk]
       IN  req' = IF movie = None
                  THEN Respond([r EXCEPT !.missing = pk], StatusError)
                  ELSE Respond([r EXCEPT !.movie_id = movie.movie_id], StatusOk)
    /\ UNCHANGED <<movies, ratings, users, model, app, req2>>

\* PUT /movies/{movie_id}: update_movie of main.py returns what the store
\* returned, None for a missing row, and IntegrityError becomes HTTP 500
HandleUpdateMovie(pk, movie_id) ==
    /\ req.pc = "idle"
    /\ movies' = update_movie(pk, movie_id)
    /\ LET r == [Idle EXCEPT !.kind = "update_movie", !.id = pk,
                             !.movie_id = movie_id]
       IN  req' = IF pk \notin DOMAIN movies
                  THEN Respond([r EXCEPT !.missing = pk], StatusError)
                  ELSE IF \E k \in DOMAIN movies \ {pk} : movies[k] = movie_id
                  THEN Respond(r, StatusError)
                  ELSE Respond(r, StatusOk)
    /\ UNCHANGED <<ratings, users, model, app, req2>>

\* DELETE /movies/{movie_id}: the bool of db.delete_movie is dropped
HandleDeleteMovie(pk) ==
    /\ req.pc = "idle"
    /\ movies' = delete_movie(pk)
    /\ req' = Respond([Idle EXCEPT !.kind = "delete_movie", !.id = pk,
                                   !.missing = IF pk \in DOMAIN movies THEN 0 ELSE pk],
                      StatusOk)
    /\ UNCHANGED <<ratings, users, model, app, req2>>

\* POST /users/
HandleCreateUser(user_id) ==
    /\ req.pc = "idle"
    /\ NextRowid(users) <= MaxUserPk
    /\ users' = create_user(user_id)
    /\ req' = Respond([Idle EXCEPT !.kind = "create_user", !.user_id = user_id],
                      IF user_id \in Range(users) THEN StatusError ELSE StatusOk)
    /\ UNCHANGED <<movies, ratings, model, app, req2>>

\* GET /users/{user_id}: session.get by primary key, HTTP 404 for None
HandleGetUser(pk) ==
    /\ req.pc = "idle"
    /\ LET r == [Idle EXCEPT !.kind = "get_user", !.id = pk]
       IN  req' = IF pk \in DOMAIN users
                  THEN Respond([r EXCEPT !.user_id = users[pk]], StatusOk)
                  ELSE Respond([r EXCEPT !.missing = pk], StatusNotFound)
    /\ UNCHANGED <<movies, ratings, users, model, app, req2>>

\* DELETE /users/{user_id}: the HTTPException(404) is raised inside the try
\* and caught by its except Exception, which raises HTTP 500
HandleDeleteUser(pk) ==
    /\ req.pc = "idle"
    /\ users' = delete_user(pk)
    /\ LET r == [Idle EXCEPT !.kind = "delete_user", !.id = pk]
       IN  req' = IF pk \in DOMAIN users THEN Respond(r, StatusOk)
                  ELSE Respond([r EXCEPT !.missing = pk], StatusError)
    /\ UNCHANGED <<movies, ratings, model, app, req2>>

\* --------------------------------------------------------- specification
\* populate_movies on an empty table: n seed movies, numbered in file order
SeedMovies(n) == [k \in 1..n |-> k]

\* a model.pkl whose estimates depend on the user and on the movie
SeedModel == [p \in UserIds \X MovieIds |-> ((p[1] + p[2]) % MaxEst) + 1]

\* lifespan: model.pkl is loaded, then create_db_and_tables seeds the tables
Init ==
    /\ movies = SeedMovies(NSeedMovies)
    /\ ratings = <<>>
    /\ users = [k \in 1..MaxUserPk |-> k]
    /\ model = SeedModel
    /\ app = "serving"
    /\ req = Idle
    /\ req2 = Idle

Requests ==
    \/ \E u \in UserIds, n \in TopNs : RecStart(u, n)
    \/ RecHydrate
    \/ \E g \in MovieIds, u \in UserIds, n \in TopNs, s \in Skips : RecByGenre(g, u, n, s)
    \/ \E u \in UserIds, m \in MovieIds : PredictRating(u, m)
    \/ Reply

Writes ==
    \/ \E m \in MovieIds : CreateMovie(m)
    \/ \E pk \in 1..MaxMoviePk, m \in MovieIds : UpdateMovie(pk, m)
    \/ \E pk \in 1..MaxMoviePk : DeleteMovie(pk)
    \/ \E u \in UserIds, m \in MovieIds, v \in RatingInputs :
            NextRowid(ratings) <= MaxRatingPk /\ CreateRating(u, m, v)
    \/ \E pk \in 1..MaxRatingPk, u \in UserIds, m \in MovieIds, v \in RatingInputs :
            UpdateRating(pk, u, m, v)
    \/ \E pk \in 1..MaxRatingPk : DeleteRating(pk)
    \/ \E u \in UserIds : CreateUser(u)
    \/ \E pk \in 1..MaxUserPk : DeleteUser(pk)

Next == Requests \/ Writes

\* the service under requests and writes, serving one model.pkl
Spec == Init /\ [][Next]_vars

\* the same service when no write is handled while a request is in flight
NextQuiet == Requests \/ (req.pc = "idle" /\ Writes)

SpecQuiet == Init /\ [][NextQuiet]_vars

\* a start on a store that holds the seed movies and at most one rating,
\* with any model.pkl
InitRank ==
    /\ \E n \in 0..MaxMoviePk : movies = SeedMovies(n)
    /\ \/ ratings = <<>>
       \/ \E u \in UserIds, m \in MovieIds :
            ratings = <<[user_id |-> u, movie_id |-> m, rating |-> Whole(MaxRating)]>>
    /\ users = [k \in 1..MaxUserPk |-> k]
    /\ model \in [UserIds \X MovieIds -> {Raises} \cup Ests]
    /\ app = "serving"
    /\ req = Idle
    /\ req2 = Idle

\* the recommendation pipeline alone, on an unchanging store
SpecRank == InitRank /\ [][Requests]_vars

\* the writes of the Rating table, with the floats the request model accepts
RatingWrites ==
    \/ \E u \in UserIds, m \in MovieIds, v \in RatingFloats :
            NextRowid(ratings) <= MaxRatingRows /\ CreateRating(u, m, v)
    \/ \E pk \in 1..MaxRatingRows, u \in UserIds, m \in MovieIds, v \in RatingFloats :
            UpdateRating(pk, u, m, v)
    \/ \E pk \in 1..MaxRatingRows : DeleteRating(pk)

NextRatings == Requests \/ (req.pc = "idle" /\ RatingWrites)

\* the service over the seeded catalogue while ratings are written between
\* the requests
SpecRatings == Init /\ [][NextRatings]_vars

NextCatalog ==
    \/ \E m \in MovieIds : HandleCreateMovie(m)
    \/ \E pk \in 1..MaxMoviePk : HandleReadMovie(pk)
    \/ \E pk \in 1..MaxMoviePk, m \in MovieIds : HandleUpdateMovie(pk, m)
    \/ \E pk \in 1..MaxMoviePk : HandleDeleteMovie(pk)
    \/ \E u \in UserIds : HandleCreateUser(u)
    \/ \E pk \in UserIds : HandleGetUser(pk)
    \/ \E pk \in UserIds : HandleDeleteUser(pk)
    \/ Reply

\* the requests for one movie or one user, answered one after the other
SpecCatalog == Init /\ [][NextCatalog]_vars

\* a start on a store that holds the seed movies and at most one rating
InitPair ==
    /\ \E n \in 0..MaxMoviePk : movies = SeedMovies(n)
    /\ \/ ratings = <<>>
       \/ \E u \in UserIds, m \in MovieIds :
            ratings = <<[user_id |-> u, movie_id |-> m, rating |-> Whole(MaxRating)]>>
    /\ users = [k \in 1..MaxUserPk |-> k]
    /\ model = SeedModel
    /\ app = "serving"
    /\ req = Idle
    /\ req2 = Idle

NextPair ==
    \/ \E u \in UserIds, n \in TopNs : RecStart(u, n)
    \/ RecHydrate
    \/ \E u \in UserIds, m \in MovieIds : PredictRating(u, m)
    \/ Reply
    \/ \E u \in UserIds, n \in TopNs : RecStart2(u, n)
    \/ RecHydrate2
    \/ \E u \in UserIds, m \in MovieIds : PredictRating2(u, m)
    \/ Reply2

\* two worker threads serving recommendation and prediction requests at the
\* same time, with no write to the store
SpecPair == InitPair /\ [][NextPair]_vars

\* the models a model.pkl may hold: the seed one, one whose predict always
\* raises, and one with the same estimate for every pair
Pickles ==
    {SeedModel, [p \in UserIds \X MovieIds |-> Raises],
     [p \in UserIds \X MovieIds |-> MaxEst]}

\* the process before lifespan runs: model = None and an empty database
InitBoot ==
    /\ movies = <<>>
    /\ ratings = <<>>
    /\ users = <<>>
    /\ model = NoModel
    /\ app = "starting"
    /\ req = Idle
    /\ req2 = Idle

\* lifespan going on to its yield after open or pickle.load raised
LoadModelThenYield ==
    /\ app = "starting"
    /\ \/ \E m \in Pickles : model' = m /\ app' = "loaded"
       \/ model' = model /\ app' = "serving"
    /\ UNCHANGED <<movies, ratings, users, req, req2>>

\* lifespan: model = pickle.load(f), or open or pickle.load raises and the
\* except clause returns without a yield, which ends the startup
LoadModel ==
    /\ app = "starting"
    /\ \/ \E m \in Pickles : model' = m /\ app' = "loaded"
       \/ model' = model /\ app' = "stopped"
    /\ UNCHANGED <<movies, ratings, users, req, req2>>

\* lifespan: db.create_db_and_tables() and the yield, or an exception of
\* create_db_and_tables caught by the same except clause
CreateDb ==
    /\ app = "loaded"
    /\ \/ /\ movies' = SeedMovies(NSeedMovies)
          /\ users' = [k \in 1..MaxUserPk |-> k]
          /\ app' = "serving"
       \/ UNCHANGED <<movies, users>> /\ app' = "stopped"
    /\ UNCHANGED <<ratings, model, req, req2>>

\* requests are handled once lifespan has yielded
NextBoot == LoadModel \/ CreateDb \/ (app = "serving" /\ NextQuiet)

\* the process from its start
SpecBoot == InitBoot /\ [][NextBoot]_vars

\* ------------------------------------------------------------ properties
\* the candidates of the user whose request is being served
Candidates == get_unrated_movies_by_user(req.user_id)

\* predict_top_n_for_user has returned to get_recommendations
Ranked == req.kind = "rec" /\ req.status # StatusError

\* what predict_top_n_for_user returned: the scored ids and estimates of the
\* entries already hydrated, then the entries still to hydrate
RankedPreds ==
    [i \in 1..Len(req.out) |->
        [iid |-> req.out[i].movie.movie_id, est |-> req.out[i].prediction_rating]]
    \o [i \in 1..Len(req.todo) |-> [iid |-> req.todo[i].iid, est |-> req.todo[i].est]]

HasRating(user_id, movie_id) ==
    \E r \in DOMAIN ratings :
        ratings[r].user_id = user_id /\ ratings[r].movie_id = movie_id

\* C1: for every user U and every movie M with a Rating row (U, M.movieId),
\* M is absent from the unrated movies of U
C1_RatedMovieAbsent ==
    \A u \in UserIds, k \in DOMAIN movies :
        HasRating(u, movies[k]) =>
            \A i \in 1..Len(get_unrated_movies_by_user(u)) :
                get_unrated_movies_by_user(u)[i] # Movie(k)

\* C2: for every user id without Rating rows, with or without a User record,
\* the unrated movies are the whole Movie table
C2_NoRatingsFullCatalog ==
    \A u \in UserIds :
        (\A r \in DOMAIN ratings : ratings[r].user_id # u) =>
            get_unrated_movies_by_user(u) = ScanMovies(1)

\* a recommendation request of a user id that has no User record and no
\* ratings, served from a store that holds another user's rating
C2_Witness ==
    /\ req.kind = "rec" /\ req.pc = "done" /\ req.status = StatusOk
    /\ req.user_id \notin Range(users)
    /\ ratings # <<>>
    /\ \A r \in DOMAIN ratings : ratings[r].user_id # req.user_id
    /\ Len(req.out) = NSeedMovies
    /\ get_unrated_movies_by_user(req.user_id) = ScanMovies(1)

\* C3: the ranker's output is sorted by descending estimate: any two
\* adjacent results have estimate[i] >= estimate[i+1]
C3_SortedDescending ==
    Ranked => \A i \in 1..(Len(RankedPreds) - 1) :
                  RankedPreds[i].est >= RankedPreds[i + 1].est

\* three results whose estimates differ and whose candidate order was not
\* the ranked order
C3_Witness ==
    /\ Ranked /\ req.pc = "done" /\ Len(req.out) = 3
    /\ req.out[1].prediction_rating > req.out[3].prediction_rating
    /\ req.out[1].movie.id > req.out[2].movie.id

\* C4: for every integer topN the ranker's output is at most
\* min(topN, |candidates|) long, and empty when topN <= 0 or when there is
\* no candidate
C4_LengthAtMostMin ==
    Ranked =>
        /\ Len(RankedPreds) <= Max(Min(req.top_n, Len(Candidates)), 0)
        /\ (req.top_n <= 0 \/ Candidates = <<>>) => RankedPreds = <<>>

\* the first n elements of a sequence; none when n <= 0, all when n > Len(s)
FirstN(s, n) == SubSeq(s, 1, Min(Max(n, 0), Len(s)))

\* C5: the ranker returns exactly the first topN elements of the
\* descending-sorted scored sequence, and every candidate once when topN
\* exceeds the candidate count
C5_FirstTopNOfSorted ==
    Ranked =>
        LET sorted == SortedPredictions(Predictions(req.user_id, Candidates))
        IN  /\ RankedPreds =
                 FirstN([i \in 1..Len(sorted) |->
                            [iid |-> sorted[i].iid, est |-> sorted[i].est]],
                        req.top_n)
            /\ req.top_n > Len(Candidates) =>
                 \A k \in 1..Len(Candidates) :
                    Cardinality({i \in 1..Len(RankedPreds) :
                                    RankedPreds[i].iid = Candidates[k].movie_id}) = 1

\* the place of a movie id in the sequence the Candidate Generator produced
CandidateIndex(movie_id) ==
    CHOOSE k \in 1..Len(Candidates) : Candidates[k].movie_id = movie_id

\* C6: the sort is stable: results with equal estimates are in the relative
\* order in which the Candidate Generator produced them
C6_TiesKeepCandidateOrder ==
    Ranked =>
        \A i, j \in 1..Len(RankedPreds) :
            (i < j /\ RankedPreds[i].est = RankedPreds[j].est) =>
                CandidateIndex(RankedPreds[i].iid) < CandidateIndex(RankedPreds[j].iid)

\* candidates 1, 2, 3 with estimates high, high, low and top_n = 2 gave 1, 2
C6_Witness ==
    /\ Ranked /\ req.pc = "done" /\ req.top_n = 2
    /\ Len(Candidates) = 3
    /\ model[<<req.user_id, 1>>] = model[<<req.user_id, 2>>]
    /\ model[<<req.user_id, 2>>] > model[<<req.user_id, 3>>]
    /\ Len(req.out) = 2
    /\ req.out[1].movie.movie_id = 1 /\ req.out[2].movie.movie_id = 2

\* C7: a recommendation request whose lookup of a scored movie id finds no
\* Movie still succeeds, with that entry left out
C7_MissingMovieOmitted ==
    (req.kind = "rec" /\ req.pc = "done" /\ req.missing # 0) =>
        /\ req.status = StatusOk
        /\ \A i \in 1..Len(req.out) : req.out[i].movie.movie_id # req.missing

\* C8: the genre-scoped request ends without error and returns at most
\* topN entries, those behind the first skip ranked ones
C8_GenreWindowNoError ==
    (req.kind = "genre" /\ req.pc = "done" /\ req.top_n > 0 /\ req.skip >= 0) =>
        /\ req.status = StatusOk
        /\ Len(req.out) <= Max(req.top_n, 0)

\* the Scorer raises for a candidate of the user being served
ScorerFails ==
    \E k \in 1..Len(Candidates) : model[<<req.user_id, Candidates[k].movie_id>>] = Raises

\* C9: when the Scorer fails for a candidate, the request ends in an
\* internal error with no ranking at all, and the Scorer was called once for
\* each candidate up to the failing one and not again
C9_ScorerFailureFailsRequest ==
    (req.kind = "rec" /\ ScorerFails) =>
        /\ req.pc = "done" /\ req.status = StatusError
        /\ req.out = <<>> /\ req.todo = <<>>
        /\ Len(req.calls) >= 1 /\ Len(req.calls) <= Len(Candidates)
        /\ \A i \in 1..Len(req.calls) :
            /\ req.calls[i] = Candidates[i].movie_id
            /\ (model[<<req.user_id, req.calls[i]>>] = Raises) <=> (i = Len(req.calls))

\* the Scorer raised for the second candidate, after an estimate for the first
C9_Witness ==
    /\ req.kind = "rec" /\ req.pc = "done" /\ req.status = StatusError
    /\ Len(req.calls) = 2
    /\ model[<<req.user_id, req.calls[1]>>] # Raises
    /\ model[<<req.user_id, req.calls[2]>>] = Raises

\* C10: the estimate of every entry of a recommendation response with
\* topN >= |catalog| is the estimate predictOne returns for the user and the
\* entry's movie, and predictOne returns the Scorer's estimate whether or not
\* the user rated the movie
C10_RoundTrip ==
    /\ (req.kind = "rec" /\ req.pc = "done" /\ req.status = StatusOk
            /\ req.top_n >= MaxMoviePk) =>
        \A i \in 1..Len(req.out) :
            req.out[i].prediction_rating =
                predict_for_user(req.user_id, req.out[i].movie.movie_id).est
    /\ (req.kind = "predict" /\ req.pc = "done" /\ req.status = StatusOk) =>
        req.est = model[<<req.user_id, req.movie_id>>]

\* C11: a recommendation request with degenerate pagination (top_n <= 0, or
\* on the genre path skip < 0) that has been answered was answered without
\* an error
C11_DegeneratePaginationNoError ==
    (/\ req.pc = "done"
     /\ \/ req.kind = "rec" /\ req.top_n <= 0
        \/ req.kind = "genre" /\ (req.top_n <= 0 \/ req.skip < 0))
        => req.status = StatusOk

\* C12: every row of the Rating table holds one of the integers 1..5 as its
\* rating, so a create_rating or update_rating with any other value, a
\* non-integer float included, left the table as it was
C12_RatingIsIntegerOneToFive ==
    \A pk \in DOMAIN ratings :
        ratings[pk].rating \in {Whole(n) : n \in MinRating..MaxRating}

\* the movie_id is held by a Movie row other than the row pk
Duplicates(pk, movie_id) == \E k \in DOMAIN movies \ {pk} : movies[k] = movie_id

\* C13: no two Movie rows share a movie_id, and a create_movie or
\* update_movie that would give a second row the movie_id of another row is
\* answered with an error and leaves the Movie table as it was
C13_MovieIdUnique ==
    /\ [](\A j, k \in DOMAIN movies : movies[j] = movies[k] => j = k)
    /\ [][(/\ req.pc = "idle"
           /\ req'.kind \in {"create_movie", "update_movie"}
           /\ Duplicates(req'.id, req'.movie_id))
              => (movies' = movies /\ req'.status = StatusError)]_vars

\* a create_movie with the movie_id of a stored row has been rejected
C13_Witness ==
    /\ req.kind = "create_movie" /\ req.pc = "done" /\ req.status = StatusError
    /\ req.movie_id \in Range(movies)

\* C14: every step of a recommendation, genre recommendation or predict_rating
\* request, answered with success or with an error, leaves the Movie, Rating
\* and User tables and the loaded model as they were
C14_PipelineWritesNothing ==
    [][req' # req => (/\ movies' = movies /\ ratings' = ratings
                      /\ users' = users /\ model' = model)]_vars

\* a recommendation request has failed on a store that holds a rating
C14_Witness ==
    /\ req.kind = "rec" /\ req.pc = "done" /\ req.status = StatusError
    /\ ratings # <<>>
    /\ movies # <<>>

\* C15: a read_movie, delete_movie, get_user_endpoint or delete_user_endpoint
\* request whose id names no row is answered with the not-found status,
\* never with success and never with an internal error
C15_MissingRowIsNotFound ==
    (/\ req.pc = "done"
     /\ req.kind \in {"read_movie", "delete_movie", "get_user", "delete_user"}
     /\ req.missing # 0)
        => req.status = StatusNotFound

\* the unrated set of the store: the movie_id values of the Movie table
\* without a Rating row of the user
UnratedIds(user_id) ==
    {movies[k] : k \in DOMAIN movies} \ {m \in MovieIds : HasRating(user_id, m)}

\* C16: whatever writes are interleaved with the requests, the movies ranked
\* for a recommendation request that asks for the whole catalogue are the
\* unrated set of the one store state in which the candidate query ran
C16_SingleConsistentRead ==
    [][(/\ req.pc = "idle" /\ req'.kind = "rec"
        /\ req'.top_n >= MaxMoviePk
        /\ req'.status # StatusError)
           => {req'.todo[i].iid : i \in 1..Len(req'.todo)} = UnratedIds(req'.user_id)]_vars

\* the request r served with no other request in flight, from its first step
\* to its response
RECURSIVE RunAlone(_)
RunAlone(r) == IF r.pc = "hydrate" THEN RunAlone(hydrate(r)) ELSE r

Alone(r) ==
    IF r.kind = "rec" THEN RunAlone(get_recommendations(r.user_id, r.top_n))
    ELSE predict_rating(r.user_id, r.movie_id)

\* C17: with no write to the store, the response of every recommendation or
\* prediction request served while another one is in flight is the response
\* the same request gets when it is served alone
C17_InterleavedAsAlone ==
    /\ req.pc = "done" => req = Alone(req)
    /\ req2.pc = "done" => req2 = Alone(req2)

\* a recommendation of several movies has been answered while the other
\* worker is in the middle of its own recommendation
C17_Witness ==
    /\ req.kind = "rec" /\ req.pc = "done" /\ req.status = StatusOk
    /\ Len(req.out) >= 2
    /\ req2.kind = "rec" /\ req2.pc = "hydrate" /\ Len(req2.out) >= 1

\* C18: the global model is assigned once, by lifespan, before any request
\* is handled, and never again; no request is handled while model is None;
\* when loading fails the application never serves a request
C18_ModelLoadedOnceBeforeServing ==
    /\ [](req.pc # "idle" => model # NoModel)
    /\ [](app = "serving" => model # NoModel)
    /\ [](app = "stopped" => req = Idle)
    /\ [][model' # model => (model = NoModel /\ app = "starting" /\ req = Idle)]_vars
    /\ [][req' # req => (app = "serving" /\ app' = "serving")]_vars

\* a recommendation has been answered by the application that loaded a model
C18_Witness ==
    /\ app = "serving" /\ model # NoModel
    /\ req.kind = "rec" /\ req.pc = "done"

\* C19: on every store reached by writes between the requests, each entry
\* added to a recommendation response holds the Movie whose movie_id is the
\* id the estimate was computed for, and the user has no rating of that movie
C19_EntryIsScoredUnratedMovie ==
    [][(/\ req.pc = "hydrate"
        /\ Len(req'.out) = Len(req.out) + 1)
           => LET entry == req'.out[Len(req'.out)]
              IN  /\ entry.movie.movie_id = Head(req.todo).iid
                  /\ entry.prediction_rating = Head(req.todo).est
                  /\ ~HasRating(req.user_id, entry.movie.movie_id)]_vars

\* C20: after any sequence of create_rating, update_rating and delete_rating
\* on the seeded catalogue, where several rows may rate the same movie for
\* the same user, a movie is among the unrated movies of a user exactly when
\* no Rating row of the user and the movie's movie_id exists, and a
\* recommendation for the whole catalogue ranks exactly these movies
C20_UnratedIffNoRow ==
    /\ \A u \in UserIds, k \in DOMAIN movies :
        (\E i \in 1..Len(get_unrated_movies_by_user(u)) :
            get_unrated_movies_by_user(u)[i] = Movie(k))
        <=> ~HasRating(u, movies[k])
    /\ (/\ req.kind = "rec" /\ req.status # StatusError /\ req.pc # "idle"
        /\ req.top_n >= MaxMoviePk)
          => {RankedPreds[i].iid : i \in 1..Len(RankedPreds)} = UnratedIds(req.user_id)

\* the first of two Rating rows has been deleted, the row left rates a movie
\* for a user, and a recommendation for that user has been answered without
\* that movie
C20_Witness ==
    /\ DOMAIN ratings = {2}
    /\ req.kind = "rec" /\ req.pc = "done" /\ req.status = StatusOk
    /\ req.top_n >= MaxMoviePk
    /\ req.user_id = ratings[2].user_id
    /\ req.out # <<>>
    /\ \A i \in 1..Len(req.out) : req.out[i].movie.movie_id # ratings[2].movie_id
    /\ ratings[2].movie_id \in Range(movies)

====
